---- MODULE Spec2Model ----
(***************************************************************************)
(* K-Medoids clustering engine (class KMedoids): construction, medoid      *)
(* seeding (initializeMedoids), round-robin assignment and cost            *)
(* (associateMedoidsToClosestPoint) and the swap refinement loop (run).    *)
(*                                                                         *)
(* A JavaScript Set / Map is modelled as a duplicate-free sequence in      *)
(* insertion order, because forEach visits the elements in that order and  *)
(* the tie-breaks of the nearest-point queries depend on it.               *)
(* Real numbers are rationals: a probability or a tolerance is a record    *)
(* [num, den]; a configuration cost is kept multiplied by CostScale, the   *)
(* least common multiple of the possible cluster sizes, so that it is an   *)
(* integer.  For up to four points every cluster size is 1, 2 or 4, the    *)
(* quotients are exact in binary floating point, and the scaled integer    *)
(* orders candidate sets exactly as the doubles of the program do.         *)
(***************************************************************************)
EXTENDS Integers, Sequences, FiniteSets, TLC

\* Bounds of the model.
MaxPoints == 4
MaxGap == 2
MaxIter == 2

VARIABLES
    distanceMatrix, nClusters, nPoints, startProb, endProb,   \* constructor inputs
    clusters, medoids,                                         \* result fields
    pc,                                                        \* position in run
    maxIterations, tolerance,                                  \* arguments of run
    seedMedoids,                                               \* local `medoids` of initializeMedoids
    currentCost, costChange, iteration,                        \* locals of run
    outerSet, outerIdx, innerSet, innerIdx,                    \* the two forEach enumerations
    initialCost,                                               \* cost returned at line 168
    assoc                                                      \* latest associateMedoidsToClosestPoint call

vars == <<distanceMatrix, nClusters, nPoints, startProb, endProb, clusters, medoids,
          pc, maxIterations, tolerance, seedMedoids, currentCost, costChange,
          iteration, outerSet, outerIdx, innerSet, innerIdx, initialCost, assoc>>

----------------------------------------------------------------------------
\* Small library: optional values, extended numbers, rationals, ordered sets.

None == {}
Some(x) == {x}
TheOne(s) == CHOOSE x \in s : TRUE

Infinity == [inf |-> TRUE, v |-> 0]
Num(x) == [inf |-> FALSE, v |-> x]
\* a < b for a finite number a and an extended number b
LessThan(a, b) == b.inf \/ a < b.v

Rat(n, d) == [num |-> n, den |-> d]
RatLess(a, b) == a.num * b.den < b.num * a.den
RatLeq(a, b) == a.num * b.den <= b.num * a.den

Range(s) == {s[i] : i \in 1..Len(s)}
SetHas(s, x) == x \in Range(s)
\* Set.prototype.add: appends unless already present
SetAdd(s, x) == IF SetHas(s, x) THEN s ELSE Append(s, x)
\* Set.prototype.delete: removes, keeping the order of the rest
SetDelete(s, x) == SelectSeq(s, LAMBDA y : y # x)

RECURSIVE Gcd(_, _)
Gcd(a, b) == IF b = 0 THEN a ELSE Gcd(b, a % b)
RECURSIVE Lcm1To(_)
Lcm1To(n) == IF n <= 1 THEN 1 ELSE LET l == Lcm1To(n - 1) IN (l * n) \div Gcd(l, n)
\* every cluster size divides CostScale(n)
CostScale(n) == Lcm1To(n)

----------------------------------------------------------------------------
\* Inputs.

\* _.range(nPoints) as an ordered set
RECURSIVE RangeSeq(_)
RangeSeq(n) == IF n = 0 THEN <<>> ELSE Append(RangeSeq(n - 1), n - 1)
nRange == RangeSeq(nPoints)

Abs(x) == IF x < 0 THEN -x ELSE x
RECURSIVE Position(_, _)
Position(gaps, i) == IF i = 0 THEN 0 ELSE Position(gaps, i - 1) + gaps[i]
\* distance matrix of points on a line, point i at Position(gaps, i)
LineMatrix(gaps) ==
    [i \in 0..Len(gaps) |-> [j \in 0..Len(gaps) |-> Abs(Position(gaps, i) - Position(gaps, j))]]
GapSeqs(n, least) == [1..(n - 1) -> least..MaxGap]
\* 2 to MaxPoints points on a line, neighbours 0 to MaxGap apart
Matrices == {LineMatrix(g) : g \in UNION {GapSeqs(n, 0) : n \in 2..MaxPoints}}
\* the same with no two points at the same place
DistinctMatrices == {LineMatrix(g) : g \in UNION {GapSeqs(n, 1) : n \in 2..MaxPoints}}
MatrixLength(D) == Cardinality(DOMAIN D)

----------------------------------------------------------------------------
\* Pure queries of the engine.  D is the distance matrix, n the point count.

getDistance(D, point1, point2) == D[point1][point2]

RECURSIVE ClosestMedoidScan(_, _, _, _, _)
ClosestMedoidScan(D, meds, point, i, best) ==
    IF i > Len(meds) THEN best
    ELSE LET distance == getDistance(D, point, meds[i])
         IN  ClosestMedoidScan(D, meds, point, i + 1,
                 IF LessThan(distance, best.distance)
                 THEN [medoid |-> meds[i], distance |-> Num(distance)]
                 ELSE best)
\* first medoid (in iteration order) at the least distance from point
getClosestMedoid(D, meds, point) ==
    ClosestMedoidScan(D, meds, point, 1, [medoid |-> -1, distance |-> Infinity])

RECURSIVE ClosestPointScan(_, _, _, _, _, _)
ClosestPointScan(D, n, medoid, exception, point, best) ==
    IF point >= n THEN best
    ELSE ClosestPointScan(D, n, medoid, exception, point + 1,
             IF point \notin exception /\ LessThan(getDistance(D, point, medoid), best.distance)
             THEN [point |-> Some(point), distance |-> Num(getDistance(D, point, medoid))]
             ELSE best)
\* first point (ascending index) outside `exception` at the least distance from medoid
getClosestPoint(D, n, medoid, exception) ==
    ClosestPointScan(D, n, medoid, exception, 0, [point |-> None, distance |-> Infinity])

\* getNonMedoids stopping one point short of nRange
getNonMedoidsButLast(n, meds) == SelectSeq(RangeSeq(n - 1), LAMBDA x : ~SetHas(meds, x))

\* points that are not medoids, in ascending order
getNonMedoids(n, meds) == SelectSeq(RangeSeq(n), LAMBDA x : ~SetHas(meds, x))

\* AssociateOne without line 139: the point taken is not marked as associated
AssociateOneUnmarked(D, n, medoid, st) ==
    LET cp == getClosestPoint(D, n, medoid, st.alreadyAssociatedPoints)
    IN  IF cp.point # None
        THEN [clusters |-> [st.clusters EXCEPT ![medoid] = @ \cup cp.point],
              clustersCosts |-> [st.clustersCosts EXCEPT ![medoid] = @ + cp.distance.v],
              alreadyAssociatedPoints |-> st.alreadyAssociatedPoints,
              associatedPoints |-> st.associatedPoints + 1]
        ELSE st

\* body of the medoids.forEach callback of the assignment loop (lines 135-141)
AssociateOne(D, n, medoid, st) ==
    LET cp == getClosestPoint(D, n, medoid, st.alreadyAssociatedPoints)
    IN  IF cp.point # None
        THEN [clusters |-> [st.clusters EXCEPT ![medoid] = @ \cup cp.point],
              clustersCosts |-> [st.clustersCosts EXCEPT ![medoid] = @ + cp.distance.v],
              alreadyAssociatedPoints |-> st.alreadyAssociatedPoints \cup cp.point,
              associatedPoints |-> st.associatedPoints + 1]
        ELSE st

\* one medoids.forEach of the assignment loop (lines 134-142)
RECURSIVE AssociateRound(_, _, _, _, _)
AssociateRound(D, n, meds, i, st) ==
    IF i > Len(meds) THEN st
    ELSE AssociateRound(D, n, meds, i + 1, AssociateOne(D, n, meds[i], st))

\* while (associatedPoints !== nPoints): a round that leaves the counter
\* unchanged, or takes it beyond nPoints, is followed by the same forever
RECURSIVE AssociateLoop(_, _, _, _)
AssociateLoop(D, n, meds, st) ==
    IF st.associatedPoints = n THEN [st |-> st, terminates |-> TRUE]
    ELSE LET next == AssociateRound(D, n, meds, 1, st)
         IN  IF next.associatedPoints = st.associatedPoints \/ next.associatedPoints > n
             THEN [st |-> next, terminates |-> FALSE]
             ELSE AssociateLoop(D, n, meds, next)

RECURSIVE SumCosts(_, _, _, _)
SumCosts(keys, st, scale, i) ==
    IF i > Len(keys) THEN 0
    ELSE (st.clustersCosts[keys[i]] * scale) \div Cardinality(st.clusters[keys[i]])
         + SumCosts(keys, st, scale, i + 1)

\* clusters: a Map, as its keys in insertion order and its value at each key;
\* configurationCost: the sum of the clusters' mean distances, times CostScale(n)
associateMedoidsToClosestPoint(D, n, meds) ==
    LET start == [clusters |-> [m \in Range(meds) |-> {m}],
                  clustersCosts |-> [m \in Range(meds) |-> 0],
                  alreadyAssociatedPoints |-> Range(meds),
                  associatedPoints |-> Len(meds)]
        r == AssociateLoop(D, n, meds, start)
    IN  [clusters |-> [keys |-> meds, get |-> r.st.clusters],
         configurationCost |-> SumCosts(meds, r.st, CostScale(n), 1),
         associatedPoints |-> r.st.associatedPoints,
         terminates |-> r.terminates]

\* Seeding helpers (lines 51-58).
\* points outside meds with the distance to their closest medoid, ascending index
SeedDistances(D, n, meds) ==
    LET pts == SelectSeq(RangeSeq(n), LAMBDA point : ~SetHas(meds, point))
    IN  [i \in 1..Len(pts) |->
            [point |-> pts[i], distance |-> getClosestMedoid(D, meds, pts[i]).distance.v]]

\* _.sortBy(distances, 'distance'): stable insertion into an ascending list
RECURSIVE InsertSorted(_, _, _)
InsertSorted(sorted, e, i) ==
    IF i > Len(sorted) THEN Append(sorted, e)
    ELSE IF e.distance < sorted[i].distance
         THEN SubSeq(sorted, 1, i - 1) \o <<e>> \o SubSeq(sorted, i, Len(sorted))
         ELSE InsertSorted(sorted, e, i + 1)
RECURSIVE SortByDistance(_, _)
SortByDistance(ds, i) ==
    IF i = 0 THEN <<>> ELSE InsertSorted(SortByDistance(ds, i - 1), ds[i], 1)

\* EndIdx taken over the whole count: Math.round(endProb * count)
EndIdxOverCount(ep, count) == (2 * ep.num * count + ep.den) \div (2 * ep.den)
\* random drawing from the start of the list: any integer from 0 to the larger bound
randomFromZero(lower, upper) == 0..(IF lower < upper THEN upper ELSE lower)

\* Math.floor(startProb * count)
StartIdx(sp, count) == (sp.num * count) \div sp.den
\* Math.round(endProb * (count - 1)): the floor of the product plus one half
EndIdx(ep, count) == (2 * ep.num * (count - 1) + ep.den) \div (2 * ep.den)
Min(a, b) == IF a < b THEN a ELSE b
Max(a, b) == IF a < b THEN b ELSE a
\* lodash random(lower, upper) on integers: any integer between the two, inclusive
random(lower, upper) == Min(lower, upper)..Max(lower, upper)

----------------------------------------------------------------------------
\* The engine as a state machine.

\* seeding windows offered to the constructor: the defaults, the whole list,
\* a narrow window, and an empty one the constructor rejects
Windows == {<<Rat(9, 10), Rat(99, 100)>>, <<Rat(0, 1), Rat(1, 1)>>,
            <<Rat(7, 10), Rat(18, 25)>>, <<Rat(1, 2), Rat(1, 2)>>}
\* windows and tolerances of the refinement runs
RunWindows == {<<Rat(9, 10), Rat(99, 100)>>, <<Rat(7, 10), Rat(18, 25)>>, <<Rat(1, 2), Rat(1, 2)>>}
Tolerances == {Rat(0, 1), Rat(1, 1)}

\* the two guards of the constructor (lines 26-31)
ConstructorAccepts(D, k, sp, ep) ==
    /\ RatLeq(Rat(0, 1), sp) /\ RatLess(sp, ep) /\ RatLeq(ep, Rat(1, 1))
    /\ k < MatrixLength(D)

NoLocals ==
    /\ maxIterations = 0 /\ tolerance = Rat(0, 1) /\ seedMedoids = <<>>
    /\ currentCost = 0 /\ costChange = Infinity /\ iteration = 0
    /\ outerSet = <<>> /\ outerIdx = 0 /\ innerSet = <<>> /\ innerIdx = 0
    /\ initialCost = 0 /\ assoc = None

\* the constructor (lines 25-41) on arguments it accepts
Constructed(Ds, ks, ws) ==
    /\ \E D \in Ds, k \in ks, w \in ws :
          /\ ConstructorAccepts(D, k, w[1], w[2])
          /\ distanceMatrix = D
          /\ nClusters = k
          /\ nPoints = MatrixLength(D)
          /\ startProb = w[1]
          /\ endProb = w[2]
    /\ clusters = None
    /\ medoids = <<>>
    /\ pc = "constructed"
    /\ NoLocals

Init == Constructed(DistinctMatrices, 1..MaxPoints, RunWindows)

engine == <<distanceMatrix, nClusters, nPoints, startProb, endProb>>
loopVars == <<outerSet, outerIdx, innerSet, innerIdx>>

\* run is called: lines 48-49, the first medoid is any point
Run(mi, tol) ==
    /\ pc \in {"constructed", "done"}
    /\ maxIterations' = mi
    /\ tolerance' = tol
    /\ \E first \in random(0, nPoints - 1) : seedMedoids' = SetAdd(<<>>, first)
    /\ pc' = "seeding"
    /\ currentCost' = 0 /\ costChange' = Infinity /\ iteration' = 0
    /\ outerSet' = <<>> /\ outerIdx' = 0 /\ innerSet' = <<>> /\ innerIdx' = 0
    /\ initialCost' = 0 /\ assoc' = None
    /\ UNCHANGED <<engine, clusters, medoids>>

\* the medoid sets one pass of the seeding loop can produce (lines 51-59);
\* a drawn position outside the sorted list reads `.point` of undefined
SeedOutcomes(D, n, sp, ep, meds) ==
    LET distances == SeedDistances(D, n, meds)
        distancesSorted == SortByDistance(distances, Len(distances))
        startIdx == StartIdx(sp, Len(distances))
        endIdx == EndIdx(ep, Len(distances))
    IN  {IF p \in 0..(Len(distancesSorted) - 1)
         THEN [threw |-> FALSE, medoids |-> SetAdd(meds, distancesSorted[p + 1].point)]
         ELSE [threw |-> TRUE, medoids |-> meds] : p \in random(startIdx, endIdx)}

\* one pass of while (medoids.size !== nClusters)
SeedStep ==
    /\ pc = "seeding"
    /\ Len(seedMedoids) # nClusters
    /\ \E o \in SeedOutcomes(distanceMatrix, nPoints, startProb, endProb, seedMedoids) :
          /\ seedMedoids' = o.medoids
          /\ pc' = IF o.threw THEN "threw" ELSE "seeding"
    /\ UNCHANGED <<engine, clusters, medoids, maxIterations, tolerance, currentCost,
                   costChange, iteration, loopVars, initialCost, assoc>>

\* initializeMedoids returns; lines 165-172
InitialAssociate ==
    /\ pc = "seeding"
    /\ Len(seedMedoids) = nClusters
    /\ medoids' = seedMedoids
    /\ LET r == associateMedoidsToClosestPoint(distanceMatrix, nPoints, seedMedoids)
       IN  /\ assoc' = Some([medoids |-> seedMedoids, result |-> r])
           /\ currentCost' = r.configurationCost
           /\ initialCost' = r.configurationCost
           /\ pc' = IF r.terminates THEN "while" ELSE "hung"
    /\ costChange' = Infinity
    /\ iteration' = 0
    /\ UNCHANGED <<engine, clusters, maxIterations, tolerance, seedMedoids, loopVars>>

\* costChange > tolerance, with the cost kept times CostScale
ExceedsTolerance(change, tol, n) ==
    change.inf \/ change.v * tol.den > tol.num * CostScale(n)

\* the loop test without the iteration cap
LoopConditionUncapped == ExceedsTolerance(costChange, tolerance, nPoints)

LoopCondition ==
    ExceedsTolerance(costChange, tolerance, nPoints) /\ iteration < maxIterations

\* line 173 true, lines 174-175: a pass starts over the current medoid Set
PassStart ==
    /\ pc = "while"
    /\ LoopCondition
    /\ costChange' = Num(0)
    /\ outerSet' = medoids
    /\ outerIdx' = 1
    /\ pc' = "outer"
    /\ UNCHANGED <<engine, clusters, medoids, maxIterations, tolerance, seedMedoids,
                   currentCost, iteration, innerSet, innerIdx, initialCost, assoc>>

\* line 173 false: run returns
Return ==
    /\ pc = "while"
    /\ ~LoopCondition
    /\ pc' = "done"
    /\ UNCHANGED <<engine, clusters, medoids, maxIterations, tolerance, seedMedoids,
                   currentCost, costChange, iteration, loopVars, initialCost, assoc>>

\* the outer forEach reaches its next medoid: line 176 enumerates the
\* non-medoids of the medoid field as it is now
OuterNext ==
    /\ pc = "outer"
    /\ outerIdx <= Len(outerSet)
    /\ innerSet' = getNonMedoids(nPoints, medoids)
    /\ innerIdx' = 1
    /\ pc' = "inner"
    /\ UNCHANGED <<engine, clusters, medoids, maxIterations, tolerance, seedMedoids,
                   currentCost, costChange, iteration, outerSet, outerIdx, initialCost, assoc>>

\* the outer forEach is exhausted: line 190
PassEnd ==
    /\ pc = "outer"
    /\ outerIdx > Len(outerSet)
    /\ iteration' = iteration + 1
    /\ pc' = "while"
    /\ UNCHANGED <<engine, clusters, medoids, maxIterations, tolerance, seedMedoids,
                   currentCost, costChange, loopVars, initialCost, assoc>>

\* forEach following the field: the enumeration restarts from the Set assigned
ForEachTargetLive(iterated, reassigned) == reassigned

\* forEach visits the Set object it was called on: assigning another Set to
\* the field it was read from does not change the enumeration under way
ForEachTarget(iterated, reassigned) == iterated

\* acceptance of a candidate that is merely not worse
AcceptsNotWorse(newCost, cost) == newCost <= cost
\* lines 177-179
SwapCandidate(meds, medoid, nonMedoid) == SetAdd(SetDelete(meds, medoid), nonMedoid)
\* line 182
Accepts(newCost, cost) == newCost < cost

\* the inner callback for one (medoid, nonMedoid) pair: lines 177-187
TrySwap ==
    /\ pc = "inner"
    /\ innerIdx <= Len(innerSet)
    /\ LET newMedoids == SwapCandidate(medoids, outerSet[outerIdx], innerSet[innerIdx])
           r == associateMedoidsToClosestPoint(distanceMatrix, nPoints, newMedoids)
       IN  /\ assoc' = Some([medoids |-> newMedoids, result |-> r])
           /\ IF ~r.terminates
              THEN /\ pc' = "hung"
                   /\ UNCHANGED <<medoids, clusters, costChange, currentCost, innerIdx,
                                  outerSet, innerSet>>
              ELSE /\ pc' = "inner"
                   /\ innerIdx' = innerIdx + 1
                   /\ IF Accepts(r.configurationCost, currentCost)
                      THEN /\ medoids' = newMedoids
                           /\ clusters' = Some(r.clusters)
                           /\ costChange' = Num(currentCost - r.configurationCost)
                           /\ currentCost' = r.configurationCost
                      ELSE UNCHANGED <<medoids, clusters, costChange, currentCost>>
                   /\ outerSet' = ForEachTarget(outerSet, medoids')
                   /\ innerSet' = ForEachTarget(innerSet, getNonMedoids(nPoints, medoids'))
    /\ UNCHANGED <<engine, maxIterations, tolerance, seedMedoids, iteration,
                   outerIdx, initialCost>>

\* the inner forEach is exhausted: the outer one moves on
InnerEnd ==
    /\ pc = "inner"
    /\ innerIdx > Len(innerSet)
    /\ outerIdx' = outerIdx + 1
    /\ pc' = "outer"
    /\ UNCHANGED <<engine, clusters, medoids, maxIterations, tolerance, seedMedoids,
                   currentCost, costChange, iteration, outerSet, innerSet, innerIdx,
                   initialCost, assoc>>

RunStep ==
    \/ SeedStep
    \/ InitialAssociate
    \/ PassStart
    \/ Return
    \/ OuterNext
    \/ PassEnd
    \/ TrySwap
    \/ InnerEnd

\* any number of calls of run on the engine
Next ==
    \/ \E mi \in 0..MaxIter, tol \in Tolerances : Run(mi, tol)
    \/ RunStep

Spec == Init /\ [][Next]_vars

\* one call of run on a newly constructed engine
FirstRun(mi, tol) == pc = "constructed" /\ Run(mi, tol)

FirstNext ==
    \/ \E mi \in 0..MaxIter, tol \in Tolerances : FirstRun(mi, tol)
    \/ RunStep

FirstRunSpec == Init /\ [][FirstNext]_vars

\* initializeMedoids alone, as the first call of run executes it, over every
\* window and with points that may coincide
SeedInit == Constructed(Matrices, 1..MaxPoints, Windows)
SeedNext ==
    \/ FirstRun(0, Rat(0, 1))
    \/ SeedStep
SeedSpec == SeedInit /\ [][SeedNext]_vars

\* associateMedoidsToClosestPoint alone, called with any non-empty medoid Set
OrderedSets(n) ==
    {s \in UNION {[1..l -> 0..(n - 1)] : l \in 1..n} :
        \A i, j \in 1..Len(s) : i # j => s[i] # s[j]}
AssocInit == Constructed(Matrices, {2}, {<<Rat(9, 10), Rat(99, 100)>>})
Associate(meds) ==
    /\ pc = "constructed"
    /\ assoc' = Some([medoids |-> meds,
                      result |-> associateMedoidsToClosestPoint(distanceMatrix, nPoints, meds)])
    /\ UNCHANGED <<engine, clusters, medoids, pc, maxIterations, tolerance, seedMedoids,
                   currentCost, costChange, iteration, loopVars, initialCost>>
\* one call on a newly constructed engine
AssocNext == assoc = None /\ \E meds \in OrderedSets(nPoints) : Associate(meds)
AssocSpec == AssocInit /\ [][AssocNext]_vars

----------------------------------------------------------------------------
\* Properties.

Points == 0..(nPoints - 1)
InRun == pc \in {"while", "outer", "inner"}
Seeded == InRun \/ pc = "done"
ValidEngine == 1 <= nClusters /\ nClusters < nPoints
ClusteringOf(meds) == associateMedoidsToClosestPoint(distanceMatrix, nPoints, meds).clusters
CostOf(meds) == associateMedoidsToClosestPoint(distanceMatrix, nPoints, meds).configurationCost

\* C1: when run returns, `clusters` is set and is the clustering that
\* associateMedoidsToClosestPoint computes for the medoid set in `medoids`.
C1_ClustersSetOnReturn ==
    (ValidEngine /\ pc = "done") =>
        /\ clusters # None
        /\ clusters = Some(ClusteringOf(medoids))

\* C2: from the end of seeding until run returns, `medoids` holds exactly
\* nClusters distinct point indices.
C2_MedoidsSizeIsK ==
    (ValidEngine /\ Seeded) =>
        /\ Len(medoids) = nClusters
        /\ Cardinality(Range(medoids)) = nClusters
        /\ Range(medoids) \subseteq Points

\* C10: a `clusters` that is not null has exactly the current medoids as its
\* keys, each medoid a member of its own cluster.
C10_ClustersMatchMedoids ==
    clusters # None =>
        LET c == TheOne(clusters)
        IN  /\ Range(c.keys) = Range(medoids)
            /\ \A m \in Range(c.keys) : m \in c.get[m]

\* C3: for every non-empty medoid set, associateMedoidsToClosestPoint returns
\* clusters that are pairwise disjoint and whose union is all the points.
C3_ClustersPartitionPoints ==
    assoc # None =>
        LET a == TheOne(assoc)
            c == a.result.clusters
        IN  /\ a.result.terminates
            /\ UNION {c.get[m] : m \in Range(c.keys)} = Points
            /\ \A m1, m2 \in Range(c.keys) : m1 # m2 => c.get[m1] \cap c.get[m2] = {}

\* a call with several medoids that each took points beyond themselves
C3_Witness ==
    /\ pc = "constructed"
    /\ assoc # None
    /\ LET a == TheOne(assoc)
       IN  /\ Len(a.medoids) >= 2
           /\ a.medoids[1] > a.medoids[2]
           /\ \A m \in Range(a.medoids) : Cardinality(a.result.clusters.get[m]) >= 2

\* the ascending-sorted distance list the seeding loop builds from meds
SortedFor(meds) ==
    LET distances == SeedDistances(distanceMatrix, nPoints, meds)
    IN  SortByDistance(distances, Len(distances))
SeedingUnderWay == pc = "seeding" /\ Len(seedMedoids) < nClusters
SeedCount == nPoints - Len(seedMedoids)

\* C5: initializeMedoids never reads past the sorted list, every pass adds a
\* point that was not a medoid, and what it returns is exactly nClusters
\* distinct point indices.
C5_SeedingYieldsKDistinct ==
    /\ pc # "threw"
    /\ pc = "seeding" =>
          /\ 1 <= Len(seedMedoids) /\ Len(seedMedoids) <= nClusters
          /\ Cardinality(Range(seedMedoids)) = Len(seedMedoids)
          /\ Range(seedMedoids) \subseteq Points
    /\ SeedingUnderWay =>
          \A o \in SeedOutcomes(distanceMatrix, nPoints, startProb, endProb, seedMedoids) :
              /\ ~o.threw
              /\ Len(o.medoids) = Len(seedMedoids) + 1

\* seeding returned three medoids or more under the narrow window
C5_Witness ==
    /\ pc = "seeding"
    /\ Len(seedMedoids) = nClusters
    /\ nClusters >= 3
    /\ startProb = Rat(7, 10)

\* C8 as stated: at every seeding pass 0 <= startIdx <= endIdx <= count - 1.
C8_WindowOrdered ==
    (SeedingUnderWay /\ SeedCount >= 2) =>
        /\ 0 <= StartIdx(startProb, SeedCount)
        /\ StartIdx(startProb, SeedCount) <= EndIdx(endProb, SeedCount)
        /\ EndIdx(endProb, SeedCount) <= SeedCount - 1

\* C8 amended: startIdx and endIdx both lie in 0..count-1, in either order,
\* and the new medoid is the point at a sorted position between the two.
C8_WindowWithinList ==
    /\ [](SeedingUnderWay =>
            /\ StartIdx(startProb, SeedCount) \in 0..(SeedCount - 1)
            /\ EndIdx(endProb, SeedCount) \in 0..(SeedCount - 1))
    /\ [][(SeedingUnderWay /\ seedMedoids' # seedMedoids) =>
            LET lo == Min(StartIdx(startProb, SeedCount), EndIdx(endProb, SeedCount))
                hi == Max(StartIdx(startProb, SeedCount), EndIdx(endProb, SeedCount))
            IN  \E p \in lo..hi :
                    seedMedoids' = Append(seedMedoids, SortedFor(seedMedoids)[p + 1].point)]_vars

\* a pass with startIdx above endIdx has drawn the lower position, endIdx
C8_Witness ==
    /\ pc = "seeding"
    /\ Len(seedMedoids) >= 2
    /\ LET before == SubSeq(seedMedoids, 1, Len(seedMedoids) - 1)
           count == nPoints - Len(before)
       IN  /\ StartIdx(startProb, count) > EndIdx(endProb, count)
           /\ seedMedoids[Len(seedMedoids)]
                 = SortedFor(before)[EndIdx(endProb, count) + 1].point

\* A variant of run: a natural number that every step of run lowers.
\* TurnWeight exceeds the steps of one medoid's turn, PassWeight those of a pass.
TurnWeight == nPoints + 3
PassWeight == (nPoints + 1) * TurnWeight + 2
PassesLeft == maxIterations - iteration
Variant ==
    CASE pc = "seeding" -> 2 + maxIterations * PassWeight + (nClusters - Len(seedMedoids))
      [] pc = "while"   -> 1 + PassesLeft * PassWeight
      [] pc = "outer"   -> 1 + (PassesLeft - 1) * PassWeight
                             + 1 + (Len(outerSet) - outerIdx + 1) * TurnWeight
      [] pc = "inner"   -> 1 + (PassesLeft - 1) * PassWeight
                             + 1 + (Len(outerSet) - outerIdx) * TurnWeight
                             + 1 + (Len(innerSet) - innerIdx + 1)
      [] OTHER          -> 0
Running == pc \in {"seeding", "while", "outer", "inner"}

\* C4: run returns after at most maxIterations passes, the pass counter grows
\* by one per pass, and every call of associateMedoidsToClosestPoint made in
\* run terminates with its counter at nPoints exactly.  Returning is stated
\* with the variant: run never hangs or throws, every step it takes lowers
\* the variant, and the variant is never negative.
C4_RunReturnsWithinBound ==
    /\ [](/\ iteration <= maxIterations
          /\ pc \notin {"hung", "threw"}
          /\ Variant >= 0
          /\ assoc # None =>
                /\ TheOne(assoc).result.terminates
                /\ TheOne(assoc).result.associatedPoints = nPoints)
    /\ [][Running => Variant' < Variant]_vars
    /\ [][(pc = "outer" /\ pc' = "while") => iteration' = iteration + 1]_vars
    /\ [][(Running /\ iteration' # iteration) => (pc = "outer" /\ pc' = "while")]_vars

\* run returned because the cap was reached, a swap accepted in the last pass
C4_Witness ==
    /\ pc = "done"
    /\ iteration = maxIterations
    /\ iteration >= 2
    /\ ExceedsTolerance(costChange, tolerance, nPoints)

\* C6: in the refinement loop the recorded cost never increases, it is
\* strictly lower after every accepted swap, and on return it is at most the
\* cost of the seeded configuration.
C6_CostNeverIncreases ==
    /\ [][InRun => /\ currentCost' <= currentCost
                   /\ medoids' # medoids => currentCost' < currentCost]_vars
    /\ [](Seeded => currentCost <= initialCost)

\* run returned after accepting swaps in two passes
C6_Witness ==
    /\ pc = "done"
    /\ iteration >= 2
    /\ ~(costChange = Num(0))
    /\ currentCost < initialCost

\* some single swap of the final medoid set costs less than the recorded cost
ImprovingSwapRemains ==
    \E medoid \in Range(medoids), nonMedoid \in Points \ Range(medoids) :
        CostOf(SwapCandidate(medoids, medoid, nonMedoid)) < currentCost

\* C7 as stated: when run returns after fewer than maxIterations passes, no
\* single swap of the final medoid set has a cost below the recorded cost.
C7_NoImprovingSwapOnEarlyReturn ==
    (pc = "done" /\ iteration < maxIterations) => ~ImprovingSwapRemains

\* C7 amended: the same when, besides, the last pass accepted no swap
\* (costChange is 0 on return, as it always is on an early return with
\* tolerance 0).
C7_NoImprovingSwapAfterIdlePass ==
    /\ (pc = "done" /\ iteration < maxIterations /\ costChange = Num(0)) => ~ImprovingSwapRemains
    /\ (pc = "done" /\ iteration < maxIterations /\ tolerance = Rat(0, 1)) => costChange = Num(0)

\* an early return after a pass that accepted no swap, several medoids held
C7_Witness ==
    /\ pc = "done"
    /\ iteration < maxIterations
    /\ iteration >= 1
    /\ costChange = Num(0)
    /\ tolerance = Rat(1, 1)
    /\ Len(medoids) >= 2

\* C9 as stated: within a pass the non-medoids iterated are those of the
\* medoid set as it was when the pass started.
C9_EnumerationOfPassStart ==
    pc = "inner" => innerSet = getNonMedoids(nPoints, outerSet)

\* C9 amended: the medoids iterated are those of the medoid set at the start
\* of the pass; the non-medoids iterated for one medoid are those of the
\* medoid set as it was when that medoid's turn began, and neither
\* enumeration changes when a swap is accepted.
C9_EnumerationsFixedAcrossSwap ==
    /\ [][(pc = "while" /\ pc' = "outer") => outerSet' = medoids]_vars
    /\ [][(pc = "outer" /\ pc' = "inner") => innerSet' = getNonMedoids(nPoints, medoids)]_vars
    /\ [][(pc \in {"outer", "inner"} /\ pc' \in {"outer", "inner"}) => outerSet' = outerSet]_vars
    /\ [][(pc = "inner" /\ pc' = "inner") => innerSet' = innerSet]_vars

\* a swap was accepted and candidates of the same medoid's turn remain, the
\* list under way no longer being the non-medoids of the medoid field
C9_Witness ==
    /\ pc = "inner"
    /\ innerIdx > 1
    /\ innerIdx <= Len(innerSet)
    /\ medoids # outerSet
    /\ innerSet # getNonMedoids(nPoints, medoids)

====
